---- MODULE Spec2Model ----
(***************************************************************************)
(* Model of the CORE GUI toolbar (daemon/core/gui/toolbar.py): the two     *)
(* button bars (design, runtime), the radio toggles, the picker popups and *)
(* the start/stop session tasks with their completion callbacks.           *)
(*                                                                         *)
(* Handlers are operators from a toolbar record to a toolbar record, so    *)
(* that a handler calling another handler is operator composition.  The    *)
(* actions apply a handler to the current state.                           *)
(***************************************************************************)
EXTENDS Integers, Sequences, FiniteSets, TLC

\* ------------------------------------------------------------------ bounds
\* longest list of exceptions carried by a StartSessionResponse
MaxExc == 2
\* most tasks in flight when handlers are invoked directly (SpecDirect)
MaxTasks == 2
\* most picker frames alive (scheduled or placed) at once
MaxPickers == 1
\* most picker frames alive at once when no session is run (SpecPickers)
MaxPopups == 2
\* most observe Menubuttons added to the runtime frame
MaxObserve == 1

\* --------------------------------------------------------------- constants
TOOLBAR_SIZE == 32

None == "None"
NORMAL == "normal"
DISABLED == "disabled"

\* GraphMode members used by the toolbar
GraphMode == {"SELECT", "EDGE", "NODE", "ANNOTATION"}

\* children of the two ButtonBar frames, in creation order
DesignChildren == <<"play_button", "select_button", "link_button",
                    "node_button", "network_button", "annotation_button">>
RuntimeChildren == <<"stop_button", "runtime_select_button",
                     "runtime_marker_button", "run_command_button">>
\* radio_buttons of the two frames (created with radio=True)
DesignRadio == <<"select_button", "link_button", "node_button",
                 "network_button", "annotation_button">>
RuntimeRadio == <<"runtime_select_button", "runtime_marker_button">>

Range(s) == {s[i] : i \in 1..Len(s)}

Frames == {"design_frame", "runtime_frame"}
DesignButtons == Range(DesignChildren)
RuntimeButtons == Range(RuntimeChildren)
winfo_children(frame) ==
    IF frame = "design_frame" THEN DesignButtons ELSE RuntimeButtons
radio_buttons(frame) ==
    IF frame = "design_frame" THEN DesignRadio ELSE RuntimeRadio
DesignRadios == Range(DesignRadio)
RuntimeRadios == Range(RuntimeRadio)
\* the members of radio_buttons(frame)
RadioSet(frame) == IF frame = "design_frame" THEN DesignRadios ELSE RuntimeRadios
Buttons == DesignButtons \cup RuntimeButtons
Radios == DesignRadios \cup RuntimeRadios
FrameOf(b) == IF b \in DesignButtons THEN "design_frame" ELSE "runtime_frame"
PickerOwners == {"node_button", "network_button", "annotation_button"}

\* the ImageEnum each button is created with
ButtonImage(b) ==
    CASE b = "play_button" -> "START"
      [] b = "select_button" -> "SELECT"
      [] b = "link_button" -> "LINK"
      [] b = "node_button" -> "ROUTER"
      [] b = "network_button" -> "HUB"
      [] b = "annotation_button" -> "MARKER"
      [] b = "stop_button" -> "STOP"
      [] b = "runtime_select_button" -> "SELECT"
      [] b = "runtime_marker_button" -> "MARKER"
      [] b = "run_command_button" -> "RUN"

\* icons: an image is the pair <<source, pixel size>>
get_icon(image_enum, size) == <<image_enum, size>>
get_custom_icon(image_file, size) == <<image_file, size>>

\* node catalogue: NodeDraw records.  NODES and NETWORK_NODES carry an
\* image_enum; a custom node carries an image_file and may carry an
\* image_enum as well, or an empty image_file.  custom_nodes is listed in the
\* order of sorted(names).
NodeDraw(label, image_enum, image_file) ==
    [label |-> label, image_enum |-> image_enum, image_file |-> image_file]
NODES == <<NodeDraw("host", "HOST", None)>>
NETWORK_NODES == <<NodeDraw("switch", "SWITCH", None)>>
custom_nodes == <<NodeDraw("both", "HOST", "both.png"),
                  NodeDraw("custom", None, "custom.png"),
                  NodeDraw("noimage", None, "")>>
AnnotationNodes == << <<"MARKER", "marker">>, <<"OVAL", "oval">>,
                      <<"RECTANGLE", "rectangle">>, <<"TEXT", "text">> >>
is_marker(shape_type) == shape_type = "marker"

\* exception texts a failed start may carry
ExcTexts == {"boom", "port in use"}
\* the exception lists of the failed responses: the lists "boom",
\* "port in use", "boom", ... of every length up to MaxExc
ExcSample == [i \in 1..MaxExc |-> IF i % 2 = 1 THEN "boom" ELSE "port in use"]
ExcLists == {SubSeq(ExcSample, 1, n) : n \in 0..MaxExc}
StartResponses ==
    {[result |-> TRUE, exceptions |-> <<>>]}
    \cup {[result |-> FALSE, exceptions |-> e] : e \in ExcLists}
StopResponses == {[result |-> r, exceptions |-> <<>>] : r \in BOOLEAN}

\* "\n".join(strings): the separator goes between consecutive items only
RECURSIVE join(_, _)
join(sep, strings) ==
    IF Len(strings) = 0 THEN ""
    ELSE IF Len(strings) = 1 THEN strings[1]
    ELSE strings[1] \o sep \o join(sep, Tail(strings))

Call(fn, arg) == [fn |-> fn, arg |-> arg]

\* Python truth value of an optional enum or string: None and the empty
\* string are false
Truthy(x) == x # None /\ x # ""

VARIABLES
    state,            \* state[b]: NORMAL or DISABLED, the Tk state of button b
    pressed,          \* pressed[b]: the "pressed" flag of the Tk state of
                      \* button b, written by select_radio and by the TButton
                      \* class bindings
    image,            \* image[b]: the image shown on button b
    raised,           \* the ButtonBar frame on top of the stacking order
    mode,             \* app.canvas.mode
    node_draw,        \* app.canvas.node_draw
    annotation_type,  \* app.canvas.annotation_type
    enums,            \* node_enum, node_file, network_enum, annotation_enum
    marker_tool,      \* TRUE when self.marker_tool holds a MarkerDialog
    menubar,          \* last is_runtime given to change_menubar_item_state
    tasks,            \* ProgressTasks started and not yet completed (titles)
    picker,           \* owner button of self.picker, None before the first
    observe,          \* Tk states of the observe Menubuttons that
                      \* create_observe_button has added to runtime_frame
    showq,            \* _show callbacks scheduled with after(0), by owner
    popups,           \* picker frames placed and not destroyed, oldest first:
                      \* owner, and where the frame's _show is (at)
    grab,             \* index in popups of the frame holding the grab, 0: none
    binding,          \* the bind_all <ButtonRelease-1> binding: "none",
                      \* "newest" (destroys the newest popup) or "gone"
                      \* (destroys a frame that is already destroyed)
    pointer,          \* mouse button 1: up, with the pointer over a toolbar
                      \* button or not, or held since a press on a toolbar
                      \* button, on a picker option or anywhere else; for the
                      \* button under the pointer or held, its "active" flag
                      \* and whether the pointer is inside it
    last              \* the most recent handler run: its name, the phase it
                      \* started in, its response, the collaborator calls it
                      \* made, in order, and the exception it raised

vars == <<state, pressed, image, raised, mode, node_draw, annotation_type,
          enums, marker_tool, menubar, tasks, picker, observe, showq, popups, grab,
          binding, pointer, last>>

\* the toolbar and its collaborators as one record
Cur ==
    [state |-> state, pressed |-> pressed, image |-> image, raised |-> raised,
     mode |-> mode, node_draw |-> node_draw, annotation_type |-> annotation_type,
     enums |-> enums, marker_tool |-> marker_tool, menubar |-> menubar,
     tasks |-> tasks, picker |-> picker, observe |-> observe, showq |-> showq,
     popups |-> popups, grab |-> grab, binding |-> binding, pointer |-> pointer,
     calls |-> <<>>, raises |-> None]
\* the value standing for "no node_draw yet" (canvas.node_draw is None)
NoNodeDraw == NodeDraw(None, None, None)
\* the response slot of a handler that takes no response
NoResponse == [result |-> FALSE, exceptions |-> <<>>]

\* ----------------------------------------------------------- session phase
\* The toolbar keeps no phase field: the phase is what its state shows.  A
\* start (stop) task in flight is Starting (Stopping); otherwise the raised
\* frame tells Runtime from Design.
PhaseOf(tk, top) ==
    IF \E i \in 1..Len(tk) : tk[i] = "Start" THEN "Starting"
    ELSE IF \E i \in 1..Len(tk) : tk[i] = "Stop" THEN "Stopping"
    ELSE IF top = "runtime_frame" THEN "Runtime"
    ELSE "Design"
Phase == PhaseOf(tasks, raised)

\* ------------------------------------------------------- module functions
call(s, fn, arg) == [s EXCEPT !.calls = Append(@, Call(fn, arg))]

\* every child of the frame is configured: the buttons and, in the runtime
\* frame, the observe Menubutton once it exists.  configure(state=...) of a
\* ttk widget sets or clears its disabled flag and clears its active flag,
\* which the pointer value carries for the button under the pointer or held.
enable_buttons(s, frame, enabled) ==
    LET st == IF enabled THEN NORMAL ELSE DISABLED
    IN [s EXCEPT !.state = [b \in Buttons |->
                              IF b \in winfo_children(frame) THEN st ELSE @[b]],
                 !.observe = IF frame = "runtime_frame"
                             THEN [i \in 1..Len(@) |-> st] ELSE @,
                 !.pointer.active = @ /\ s.pointer.b \notin winfo_children(frame)]

\* Toolbar.create_observe_button: one more child of runtime_frame, created in
\* the normal state
create_observe_button(s) == [s EXCEPT !.observe = Append(@, NORMAL)]

\* select_radio that presses the selected toggle first and clears the group after
select_radio_clearlast(s, frame, selected) ==
    [s EXCEPT !.pressed = [b \in Buttons |->
                             IF b \in RadioSet(frame) THEN FALSE ELSE @[b]]]

\* ButtonBar.select_radio
select_radio(s, frame, selected) ==
    LET cleared == [b \in Buttons |->
                      IF b \in RadioSet(frame) THEN FALSE ELSE s.pressed[b]]
    IN [s EXCEPT !.pressed = [cleared EXCEPT ![selected] = TRUE]]

tkraise(s, frame) == [s EXCEPT !.raised = frame]

\* ProgressTask(app, title, task, callback).start(): the task is in flight
\* until its completion callback has run
ProgressTask_start(s, title) ==
    [call(s, "ProgressTask.start", title) EXCEPT !.tasks = Append(@, title)]

\* -------------------------------------------------------- Toolbar handlers
click_selection(s) ==
    [select_radio(s, "design_frame", "select_button") EXCEPT !.mode = "SELECT"]

click_runtime_selection(s) ==
    [select_radio(s, "runtime_frame", "runtime_select_button") EXCEPT !.mode = "SELECT"]

\* click_start that leaves the design buttons enabled
click_start_nodisable(s) ==
    LET s1 == [call(s, "change_menubar_item_state", "True") EXCEPT !.menubar = TRUE]
        s2 == [s1 EXCEPT !.mode = "SELECT"]
    IN ProgressTask_start(s2, "Start")

click_start(s) ==
    LET s1 == [call(s, "change_menubar_item_state", "True") EXCEPT !.menubar = TRUE]
        s2 == [s1 EXCEPT !.mode = "SELECT"]
        s3 == enable_buttons(s2, "design_frame", FALSE)
    IN ProgressTask_start(s3, "Start")

set_runtime(s) ==
    click_runtime_selection(tkraise(enable_buttons(s, "runtime_frame", TRUE),
                                    "runtime_frame"))

set_design(s) ==
    click_selection(tkraise(enable_buttons(s, "design_frame", TRUE), "design_frame"))

start_callback(s, response) ==
    IF response.result
    THEN call(call(set_runtime(s), "set_metadata", ""), "show_mobility_players", "")
    ELSE call(enable_buttons(s, "design_frame", TRUE),
              "show_error", join("\n", response.exceptions))

click_link(s) ==
    [select_radio(s, "design_frame", "link_button") EXCEPT !.mode = "EDGE"]

\* update_button that does not put the chosen image on the button
update_button_noimage(s, button, nd, type_enum, img) ==
    LET s1 == [s EXCEPT !.mode = "NODE", !.node_draw = nd]
    IN IF type_enum = "NODE"
       THEN IF Truthy(nd.image_enum)
            THEN [s1 EXCEPT !.enums.node_enum = nd.image_enum, !.enums.node_file = None]
            ELSE IF Truthy(nd.image_file)
            THEN [s1 EXCEPT !.enums.node_file = nd.image_file, !.enums.node_enum = None]
            ELSE s1
       ELSE IF type_enum = "NETWORK"
       THEN [s1 EXCEPT !.enums.network_enum = nd.image_enum]
       ELSE s1

\* update_button that keeps node_file when a node with an image_enum is chosen
update_button_keepfile(s, button, nd, type_enum, img) ==
    LET s1 == [s EXCEPT !.image[button] = img, !.mode = "NODE", !.node_draw = nd]
    IN IF type_enum = "NODE"
       THEN IF Truthy(nd.image_enum)
            THEN [s1 EXCEPT !.enums.node_enum = nd.image_enum]
            ELSE IF Truthy(nd.image_file)
            THEN [s1 EXCEPT !.enums.node_file = nd.image_file, !.enums.node_enum = None]
            ELSE s1
       ELSE IF type_enum = "NETWORK"
       THEN [s1 EXCEPT !.enums.network_enum = nd.image_enum]
       ELSE s1

update_button(s, button, nd, type_enum, img) ==
    LET s1 == [s EXCEPT !.image[button] = img, !.mode = "NODE", !.node_draw = nd]
    IN IF type_enum = "NODE"
       THEN IF Truthy(nd.image_enum)
            THEN [s1 EXCEPT !.enums.node_enum = nd.image_enum, !.enums.node_file = None]
            ELSE IF Truthy(nd.image_file)
            THEN [s1 EXCEPT !.enums.node_file = nd.image_file, !.enums.node_enum = None]
            ELSE s1
       ELSE IF type_enum = "NETWORK"
       THEN [s1 EXCEPT !.enums.network_enum = nd.image_enum]
       ELSE s1

update_annotation(s, shape_type, image_enum, img) ==
    LET s1 == [s EXCEPT !.image["annotation_button"] = img,
                        !.mode = "ANNOTATION",
                        !.annotation_type = shape_type,
                        !.enums.annotation_enum = image_enum]
    IN IF is_marker(shape_type)
       THEN [call(s1, "MarkerDialog.show", "") EXCEPT !.marker_tool = TRUE]
       ELSE s1

\* PickerFrame.show: _show is scheduled on the event loop with after(0)
show(s, owner) == [s EXCEPT !.showq = Append(@, owner)]

draw_node_picker(s) ==
    show([select_radio(s, "design_frame", "node_button") EXCEPT !.picker = "node_button"],
         "node_button")

draw_network_picker(s) ==
    show([select_radio(s, "design_frame", "network_button")
            EXCEPT !.picker = "network_button"],
         "network_button")

draw_annotation_picker(s) ==
    show([select_radio(s, "design_frame", "annotation_button")
            EXCEPT !.picker = "annotation_button"],
         "annotation_button")

click_stop(s) ==
    LET s1 == [call(s, "change_menubar_item_state", "False") EXCEPT !.menubar = FALSE]
        s2 == call(s1, "close_mobility_players", "")
        s3 == enable_buttons(s2, "runtime_frame", FALSE)
    IN ProgressTask_start(s3, "Stop")

\* stop_callback that does not tell the canvas
stop_callback_nonotify(s, response) == set_design(s)

stop_callback(s, response) == call(set_design(s), "stopped_session", "")

click_run_button(s) == call(s, "RunToolDialog.show", "")

click_marker_button(s) ==
    LET s1 == [select_radio(s, "runtime_frame", "runtime_marker_button")
                 EXCEPT !.mode = "ANNOTATION", !.annotation_type = "marker"]
    IN [call(s1, "MarkerDialog.show", "") EXCEPT !.marker_tool = TRUE]

scale_button(s, button, image_enum, image_file) ==
    IF Truthy(image_enum)
    THEN [s EXCEPT !.image[button] = get_icon(image_enum, TOOLBAR_SIZE)]
    ELSE IF Truthy(image_file)
    THEN [s EXCEPT !.image[button] = get_custom_icon(image_file, TOOLBAR_SIZE)]
    ELSE s

scale(s) ==
    LET s1 == scale_button(s, "play_button", "START", None)
        s2 == scale_button(s1, "select_button", "SELECT", None)
        s3 == scale_button(s2, "link_button", "LINK", None)
        s4 == IF Truthy(s.enums.node_enum)
              THEN scale_button(s3, "node_button", s.enums.node_enum, None)
              ELSE s3
        s5 == IF Truthy(s.enums.node_file)
              THEN scale_button(s4, "node_button", None, s.enums.node_file)
              ELSE s4
        s6 == scale_button(s5, "network_button", s.enums.network_enum, None)
        s7 == scale_button(s6, "annotation_button", s.enums.annotation_enum, None)
        s8 == scale_button(s7, "runtime_select_button", "SELECT", None)
        s9 == scale_button(s8, "stop_button", "STOP", None)
        s10 == scale_button(s9, "runtime_marker_button", "MARKER", None)
    IN scale_button(s10, "run_command_button", "RUN", None)

\* ------------------------------------------------------------ PickerFrame
\* An option button of a picker frame: _create_button binds its
\* <ButtonRelease-1> to func(bar_image).  func is a partial of update_button
\* (owner, node_draw, kind) or of update_annotation (shape_type, image_enum).
Option(kind, owner, nd, shape_type, image_enum, bar_image) ==
    [kind |-> kind, owner |-> owner, node_draw |-> nd, shape_type |-> shape_type,
     image_enum |-> image_enum, bar_image |-> bar_image]

\* PickerFrame.create_button: the toolbar-size icon comes from the image enum
create_button(image_enum, kind, owner, nd, shape_type) ==
    Option(kind, owner, nd, shape_type, image_enum, get_icon(image_enum, TOOLBAR_SIZE))

\* PickerFrame.create_custom_button: the toolbar-size icon comes from the file
create_custom_button(image_file, kind, owner, nd) ==
    Option(kind, owner, nd, None, None, get_custom_icon(image_file, TOOLBAR_SIZE))

\* the option buttons a picker of the given owner is filled with, in order
PickerOptions(owner) ==
    IF owner = "node_button"
    THEN [i \in 1..Len(NODES) |->
            create_button(NODES[i].image_enum, "NODE", owner, NODES[i], None)]
         \o [i \in 1..Len(custom_nodes) |->
               create_custom_button(custom_nodes[i].image_file, "NODE", owner,
                                    custom_nodes[i])]
    ELSE IF owner = "network_button"
    THEN [i \in 1..Len(NETWORK_NODES) |->
            create_button(NETWORK_NODES[i].image_enum, "NETWORK", owner,
                          NETWORK_NODES[i], None)]
    ELSE [i \in 1..Len(AnnotationNodes) |->
            create_button(AnnotationNodes[i][1], "ANNOTATION", owner, NoNodeDraw,
                          AnnotationNodes[i][2])]

\* the func bound to an option, called with the option's toolbar-size icon
option_func(s, opt) ==
    LET s0 == call(s, "func", opt)
    IN IF opt.kind = "ANNOTATION"
       THEN update_annotation(s0, opt.shape_type, opt.image_enum, opt.bar_image)
       ELSE update_button(s0, opt.owner, opt.node_draw, opt.kind, opt.bar_image)

\* PickerFrame._show is not one step: wait_visibility and wait_window run the
\* event loop, and a _show that starts inside one of them is nested in it, so
\* an older _show goes on only after every newer one has returned.
\* Where the _show of a placed frame is:
\*   "wait_visibility"  in line 74, VisibilityNotify not yet delivered
\*   "visible"          in line 74, VisibilityNotify delivered, a newer _show
\*                      has not returned yet
\*   "wait_window"      in line 76, after grab_set
Popup(owner, at) == [owner |-> owner, at |-> at]

\* lines 74-75: wait_visibility of the newest frame returns once the frame is
\* visible and no newer _show is running; grab_set gives it the grab
resume(s) ==
    LET n == Len(s.popups)
    IN IF n > 0 /\ s.popups[n].at = "visible"
       THEN [s EXCEPT !.popups[n].at = "wait_window", !.grab = n]
       ELSE s

\* lines 70-74: the frame is placed, the release of every widget is bound to
\* destroy this frame, and _show waits for the frame to become visible
_show(s) ==
    [s EXCEPT !.popups = Append(@, Popup(Head(s.showq), "wait_visibility")),
              !.showq = Tail(@),
              !.binding = "newest"]

\* the frame k becomes visible
visibility(s, k) == resume([s EXCEPT !.popups[k].at = "visible"])

\* the bind_all binding runs: lambda e: self.destroy().  The frame it destroys
\* is the newest one; the grab goes with it.  Its _show was in wait_window and
\* unbinds (line 77), or was still in wait_visibility, which raises TclError,
\* so that line 77 is skipped and the binding stays.  Then the _show below it
\* goes on.
destroy(s) ==
    IF s.binding # "newest" THEN s
    ELSE LET n == Len(s.popups)
             waiting == s.popups[n].at = "wait_window"
         IN resume([s EXCEPT !.popups = SubSeq(@, 1, n - 1),
                             !.grab = IF @ = n THEN 0 ELSE @,
                             !.binding = IF waiting THEN "none" ELSE "gone",
                             !.raises = IF waiting THEN @ ELSE "TclError"])

\* the completion callback of task i is about to run: the task is over
ProgressTask_complete(s, i) ==
    [s EXCEPT !.tasks = SubSeq(@, 1, i - 1) \o SubSeq(@, i + 1, Len(@))]

\* the operation of a task raised e: the runner hands the completion callback
\* a failed result that carries the failure
ProgressTask_failure(e) == [result |-> FALSE, exceptions |-> <<e>>]

\* ---------------------------------------------------------------- pointer
\* The "active" flag of the Tk state of a button is set and cleared by the
\* pointer crossing the button with button 1 up, so that it can be set for
\* the button under the pointer only; the pointer value carries it.
\* mouse button 1 is up and the pointer is over no toolbar button
NoPress ==
    [kind |-> "none", b |-> None, k |-> 0, i |-> 0, inside |-> FALSE, active |-> FALSE]
\* mouse button 1 is up and the pointer is over toolbar button b, whose
\* active flag is a
Over(b, a) ==
    [kind |-> "over", b |-> b, k |-> 0, i |-> 0, inside |-> TRUE, active |-> a]
\* held since a press on toolbar button b, whose active flag is a: until the
\* release the pointer events go to b, wherever the pointer is
OnButton(b, a) ==
    [kind |-> "button", b |-> b, k |-> 0, i |-> 0, inside |-> TRUE, active |-> a]
\* held since a press on option i of the picker frame k
OnOption(k, i) ==
    [kind |-> "option", b |-> None, k |-> k, i |-> i, inside |-> TRUE, active |-> FALSE]
\* held since a press anywhere else: the canvas, a frame, the window that
\* holds the grab
Elsewhere ==
    [kind |-> "elsewhere", b |-> None, k |-> 0, i |-> 0, inside |-> TRUE,
     active |-> FALSE]

\* The button under the pointer is covered by the other frame (tkraise) or cut
\* off by the grab of a picker frame (grab_set): it gets a Leave event, and an
\* Enter event when the pointer reaches it again.
crossing(s) ==
    IF s.pointer.kind = "over" /\ ~(s.raised = FrameOf(s.pointer.b) /\ s.grab = 0)
    THEN [s EXCEPT !.pointer = NoPress]
    ELSE s

\* ------------------------------------------------------------------- Init
Init ==
    /\ state = [b \in Buttons |-> NORMAL]
    /\ pressed = [b \in Buttons |-> FALSE]
    /\ image = [b \in Buttons |-> get_icon(ButtonImage(b), TOOLBAR_SIZE)]
    /\ raised = "design_frame"
    /\ mode = "SELECT"
    /\ node_draw = NoNodeDraw
    /\ annotation_type = None
    /\ enums = [node_enum |-> "ROUTER", node_file |-> None,
                network_enum |-> "HUB", annotation_enum |-> "MARKER"]
    /\ marker_tool = FALSE
    /\ menubar = FALSE
    /\ tasks = <<>>
    /\ picker = None
    /\ observe = <<>>
    /\ showq = <<>>
    /\ popups = <<>>
    /\ grab = 0
    /\ binding = "none"
    /\ pointer = NoPress
    /\ last = [op |-> "__init__", phase |-> "Design", resp |-> NoResponse,
               calls |-> <<>>, raises |-> None]

\* the handler op, run from the current state, ended in the record s
Apply(op, resp, s) ==
    LET t == crossing(s) IN
    /\ state' = s.state
    /\ pressed' = s.pressed
    /\ image' = s.image
    /\ raised' = s.raised
    /\ mode' = s.mode
    /\ node_draw' = s.node_draw
    /\ annotation_type' = s.annotation_type
    /\ enums' = s.enums
    /\ marker_tool' = s.marker_tool
    /\ menubar' = s.menubar
    /\ tasks' = s.tasks
    /\ picker' = s.picker
    /\ observe' = s.observe
    /\ showq' = s.showq
    /\ popups' = s.popups
    /\ grab' = s.grab
    /\ binding' = s.binding
    /\ pointer' = t.pointer
    /\ last' = [op |-> op, phase |-> Phase, resp |-> resp, calls |-> s.calls,
                raises |-> s.raises]

\* ---------------------------------------------------------------- actions
\* the command each button is created with
Command(b, s) ==
    CASE b = "play_button" -> click_start(s)
      [] b = "select_button" -> click_selection(s)
      [] b = "link_button" -> click_link(s)
      [] b = "node_button" -> draw_node_picker(s)
      [] b = "network_button" -> draw_network_picker(s)
      [] b = "annotation_button" -> draw_annotation_picker(s)
      [] b = "stop_button" -> click_stop(s)
      [] b = "runtime_select_button" -> click_runtime_selection(s)
      [] b = "runtime_marker_button" -> click_marker_button(s)
      [] b = "run_command_button" -> click_run_button(s)

CommandName(b) ==
    CASE b = "play_button" -> "click_start"
      [] b = "select_button" -> "click_selection"
      [] b = "link_button" -> "click_link"
      [] b = "node_button" -> "draw_node_picker"
      [] b = "network_button" -> "draw_network_picker"
      [] b = "annotation_button" -> "draw_annotation_picker"
      [] b = "stop_button" -> "click_stop"
      [] b = "runtime_select_button" -> "click_runtime_selection"
      [] b = "runtime_marker_button" -> "click_marker_button"
      [] b = "run_command_button" -> "click_run_button"

\* The class bindings every ttk.Button of create_button gets (ttk/button.tcl).
\* <Enter>, with button 1 up: a button that is not disabled becomes active
TButton_PlainEnter(s, b) ==
    IF s.state[b] # DISABLED THEN [s EXCEPT !.pointer.active = TRUE] ELSE s

\* <Leave>, with button 1 up: the active state is cleared
TButton_PlainLeave(s, b) == [s EXCEPT !.pointer.active = FALSE]

\* <Button-1>: a button that is not disabled is put in the pressed state
TButton_Press(s, b) ==
    IF s.state[b] # DISABLED THEN [s EXCEPT !.pressed[b] = TRUE] ELSE s

\* <Button1-Leave>: the pressed state is cleared, disabled or not
TButton_Leave(s, b) == [s EXCEPT !.pressed[b] = FALSE]

\* <Button1-Enter>: a button that is active and not disabled is put in the
\* pressed state again
TButton_Enter(s, b) ==
    IF s.pointer.active /\ s.state[b] # DISABLED
    THEN [s EXCEPT !.pressed[b] = TRUE]
    ELSE s

\* does <ButtonRelease-1> on b invoke the command
Invokes(s, b) == s.pressed[b] /\ s.state[b] # DISABLED

\* <ButtonRelease-1>: a button in the pressed state leaves it and, unless it
\* is disabled, its command is invoked
TButton_Release(s, b) ==
    IF s.pressed[b]
    THEN LET s1 == [s EXCEPT !.pressed[b] = FALSE]
         IN IF s1.state[b] # DISABLED THEN Command(b, s1) ELSE s1
    ELSE s

\* the pointer reaches toolbar button b: its frame is the raised one and no
\* picker frame holds the grab
Clickable(b) == raised = FrameOf(b) /\ grab = 0

\* The picker frames alive, scheduled or placed, and the one that the release
\* of a held picker button may add.
Pickers ==
    Len(showq) + Len(popups)
    + (IF pointer.kind = "button" /\ pointer.b \in PickerOwners THEN 1 ELSE 0)

\* room for one more picker frame
PickerRoom == Pickers < MaxPickers

\* room for one more picker frame when no session is run
PopupRoom == Pickers < MaxPopups

\* the pointer, with button 1 up, comes over toolbar button b
MoveOver(b) ==
    /\ pointer = NoPress
    /\ Clickable(b)
    /\ Apply("move", NoResponse,
             TButton_PlainEnter([Cur EXCEPT !.pointer = Over(b, FALSE)], b))

\* the pointer comes over one of the buttons bs
MoveOverIn(bs) == \E b \in bs : MoveOver(b)

\* the pointer, with button 1 up, leaves the toolbar button it is over
MoveOff ==
    /\ pointer.kind = "over"
    /\ Apply("move", NoResponse,
             [TButton_PlainLeave(Cur, pointer.b) EXCEPT !.pointer = NoPress])

\* button 1 is pressed on the toolbar button b under the pointer
PressAt(b) ==
    /\ pointer.kind = "over"
    /\ pointer.b = b
    /\ Apply("press", NoResponse,
             [TButton_Press(Cur, b) EXCEPT !.pointer = OnButton(b, pointer.active)])

\* button 1 is pressed on toolbar button b; a picker button is not pressed
\* when MaxPickers picker frames are alive
Press(b) == (b \in PickerOwners => PickerRoom) /\ PressAt(b)

\* button 1 is pressed on one of the buttons bs
PressIn(bs) == \E b \in bs : Press(b)

\* button 1 is pressed on a picker button, with up to MaxPopups picker frames
PressOwner == \E b \in PickerOwners : PopupRoom /\ PressAt(b)

\* button 1 is pressed on option i of the visible picker frame k, with no grab
\* or with the grab held by that frame (option buttons are never disabled)
PressOption ==
    \E k \in 1..Len(popups) :
        \E i \in 1..Len(PickerOptions(popups[k].owner)) :
            /\ pointer = NoPress
            /\ popups[k].at # "wait_visibility"
            /\ grab \in {0, k}
            /\ Apply("press", NoResponse, [Cur EXCEPT !.pointer = OnOption(k, i)])

\* button 1 is pressed anywhere else, or on a toolbar button while a picker
\* frame holds the grab (the press is redirected to that frame)
PressElsewhere ==
    /\ pointer = NoPress
    /\ Apply("press", NoResponse, [Cur EXCEPT !.pointer = Elsewhere])

\* The pointer, with button 1 held since a press on a toolbar button, leaves
\* the button.  When a picker frame took the grab after the press, the event
\* may not reach the button.
Leave ==
    /\ pointer.kind = "button"
    /\ pointer.inside
    /\ \/ Apply("leave", NoResponse,
                [TButton_Leave(Cur, pointer.b) EXCEPT !.pointer.inside = FALSE])
       \/ /\ grab # 0
          /\ Apply("leave", NoResponse, [Cur EXCEPT !.pointer.inside = FALSE])

\* the pointer, with button 1 still held, comes back into the button
Enter ==
    /\ pointer.kind = "button"
    /\ ~pointer.inside
    /\ \/ Apply("enter", NoResponse,
                [TButton_Enter(Cur, pointer.b) EXCEPT !.pointer.inside = TRUE])
       \/ /\ grab # 0
          /\ Apply("enter", NoResponse, [Cur EXCEPT !.pointer.inside = TRUE])

\* the name under which a release is recorded
ReleaseName(invoked) ==
    IF invoked # None THEN invoked
    ELSE IF binding = "newest" THEN "destroy" ELSE "release"

\* where the pointer of s is once button 1 is up again: over the button
\* still, or outside it, and then the button gets the Leave event of the end
\* of the pointer grab
Released(s, b) == IF s.pointer.inside THEN Over(b, s.pointer.active) ELSE NoPress

\* Button 1 is released after a press on toolbar button b.  The event goes to
\* b, wherever the pointer is: the class binding runs, then the bind_all
\* binding.  When a picker frame took the grab after the press, the release
\* may be redirected to that frame, and then only the bind_all binding runs.
Release(b) ==
    /\ pointer.kind = "button"
    /\ pointer.b = b
    /\ \/ Apply(ReleaseName(IF Invokes(Cur, b) THEN CommandName(b) ELSE None),
                NoResponse,
                LET s1 == TButton_Release(Cur, b)
                IN destroy([s1 EXCEPT !.pointer = Released(s1, b)]))
       \/ /\ grab # 0
          /\ Apply(ReleaseName(None), NoResponse,
                   destroy([Cur EXCEPT !.pointer = NoPress]))

ReleasePlay == Release("play_button")

ReleaseSelect == Release("select_button")

ReleaseLink == Release("link_button")

ReleaseNodePicker == Release("node_button")

ReleaseNetworkPicker == Release("network_button")

ReleaseAnnotationPicker == Release("annotation_button")

ReleaseStop == Release("stop_button")

ReleaseRuntimeSelect == Release("runtime_select_button")

ReleaseMarker == Release("runtime_marker_button")

ReleaseRun == Release("run_command_button")

\* <space> on the button that has the keyboard focus: ttk::button::activate
\* puts the pressed state back as it was and invokes the command unless the
\* button is disabled.  Tab traversal gives the focus to any button that is
\* not disabled, the buttons of the covered frame included (both frames stay
\* mapped).  No pointer event is involved, and the grab of a picker frame
\* holds back pointer events only.  A picker button is not activated when
\* MaxPickers picker frames are alive.
KeyActivateIn(bs) ==
    \E b \in bs :
        /\ state[b] = NORMAL
        /\ b \in PickerOwners => PickerRoom
        /\ Apply(CommandName(b), NoResponse, Command(b, Cur))

KeyActivate == KeyActivateIn(Buttons)

\* the event loop runs a scheduled _show up to its wait_visibility
ShowPicker == showq # <<>> /\ Apply("_show", NoResponse, _show(Cur))

\* VisibilityNotify of a placed frame is delivered
Visibility ==
    \E k \in 1..Len(popups) :
        /\ popups[k].at = "wait_visibility"
        /\ Apply("visibility", NoResponse, visibility(Cur, k))

\* Button 1 is released after a press on an option: the option's own binding
\* calls func, then the bind_all binding runs.  When a newer picker frame took
\* the grab after the press, the release may be redirected to that frame.
ReleaseOnOption ==
    /\ pointer.kind = "option"
    /\ \/ Apply("option", NoResponse,
                destroy(option_func([Cur EXCEPT !.pointer = NoPress],
                                    PickerOptions(popups[pointer.k].owner)[pointer.i])))
       \/ /\ grab \notin {0, pointer.k}
          /\ Apply(ReleaseName(None), NoResponse,
                   destroy([Cur EXCEPT !.pointer = NoPress]))

\* Button 1 is released after a press anywhere else: only the bind_all binding
\* runs.
ReleaseElsewhere ==
    /\ pointer = Elsewhere
    /\ Apply(ReleaseName(None), NoResponse, destroy([Cur EXCEPT !.pointer = NoPress]))

\* the backend answers the start request and start_callback runs on the UI thread
StartDone ==
    \E i \in 1..Len(tasks) :
        \E r \in StartResponses :
            /\ tasks[i] = "Start"
            /\ Apply("start_callback", r, start_callback(ProgressTask_complete(Cur, i), r))

\* start_session raises instead of returning a response
StartRaises ==
    \E i \in 1..Len(tasks) :
        \E e \in ExcTexts :
            /\ tasks[i] = "Start"
            /\ LET s0 == call(ProgressTask_complete(Cur, i), "start_session.raise", e)
               IN Apply("start_callback", ProgressTask_failure(e),
                        start_callback(s0, ProgressTask_failure(e)))

StopDone ==
    \E i \in 1..Len(tasks) :
        \E r \in StopResponses :
            /\ tasks[i] = "Stop"
            /\ Apply("stop_callback", r, stop_callback(ProgressTask_complete(Cur, i), r))

\* the application rescales its icons
Scale == Apply("scale", NoResponse, scale(Cur))

\* the public methods called by the application, whatever the toolbar shows
CallClickStart ==
    Len(tasks) < MaxTasks /\ Apply("click_start", NoResponse, click_start(Cur))

CallClickStop ==
    Len(tasks) < MaxTasks /\ Apply("click_stop", NoResponse, click_stop(Cur))

CallSetRuntime == Apply("set_runtime", NoResponse, set_runtime(Cur))

CallSetDesign == Apply("set_design", NoResponse, set_design(Cur))

CallCreateObserve ==
    /\ Len(observe) < MaxObserve
    /\ Apply("create_observe_button", NoResponse, create_observe_button(Cur))

\* every event of the user interface: pointer, keyboard, the callbacks of the
\* event loop and the task completions
Next ==
    \/ MoveOverIn(Buttons)
    \/ MoveOff
    \/ PressIn(Buttons)
    \/ PressOption
    \/ PressElsewhere
    \/ Leave
    \/ Enter
    \/ ReleasePlay
    \/ ReleaseSelect
    \/ ReleaseLink
    \/ ReleaseNodePicker
    \/ ReleaseNetworkPicker
    \/ ReleaseAnnotationPicker
    \/ ReleaseStop
    \/ ReleaseRuntimeSelect
    \/ ReleaseMarker
    \/ ReleaseRun
    \/ ReleaseOnOption
    \/ ReleaseElsewhere
    \/ KeyActivate
    \/ ShowPicker
    \/ Visibility
    \/ StartDone
    \/ StartRaises
    \/ StopDone

Spec == Init /\ [][Next]_vars

\* the buttons that open no picker
SessionButtons == Buttons \ PickerOwners

\* running sessions: pointer and keyboard input to the buttons that open no
\* picker, and the task completions
NextInput ==
    \/ MoveOverIn(SessionButtons)
    \/ MoveOff
    \/ PressIn(SessionButtons)
    \/ Leave
    \/ Enter
    \/ ReleasePlay
    \/ ReleaseSelect
    \/ ReleaseLink
    \/ ReleaseStop
    \/ ReleaseRuntimeSelect
    \/ ReleaseMarker
    \/ ReleaseRun
    \/ KeyActivateIn(SessionButtons)
    \/ StartDone
    \/ StartRaises
    \/ StopDone

SpecInput == Init /\ [][NextInput]_vars

\* the buttons the pointer is used on when sessions are run with the pointer
\* only: all but two of the three picker buttons
PointerButtons == SessionButtons \cup {"node_button"}

\* user input is delivered by the pointer only, that is, to the controls of
\* the raised frame; the node picker is opened and dismissed, no option chosen
NextPointer ==
    \/ MoveOverIn(PointerButtons)
    \/ MoveOff
    \/ PressIn(PointerButtons)
    \/ PressElsewhere
    \/ Leave
    \/ Enter
    \/ ReleasePlay
    \/ ReleaseSelect
    \/ ReleaseLink
    \/ ReleaseNodePicker
    \/ ReleaseStop
    \/ ReleaseRuntimeSelect
    \/ ReleaseMarker
    \/ ReleaseRun
    \/ ReleaseElsewhere
    \/ ShowPicker
    \/ Visibility
    \/ StartDone
    \/ StartRaises
    \/ StopDone

SpecPointer == Init /\ [][NextPointer]_vars

\* choosing from the three pickers, with at most MaxPickers frames
NextOptions ==
    \/ MoveOverIn(PickerOwners)
    \/ MoveOff
    \/ PressIn(PickerOwners)
    \/ PressOption
    \/ PressElsewhere
    \/ Leave
    \/ Enter
    \/ ReleaseNodePicker
    \/ ReleaseNetworkPicker
    \/ ReleaseAnnotationPicker
    \/ ReleaseOnOption
    \/ ReleaseElsewhere
    \/ ShowPicker
    \/ Visibility

SpecOptions == Init /\ [][NextOptions]_vars

\* the buttons whose pickers offer nodes
NodePickers == {"node_button", "network_button"}

\* choosing from the node and network pickers, opened with the pointer or the
\* keyboard, and the rescaling of the icons
NextScale ==
    \/ MoveOverIn(NodePickers)
    \/ MoveOff
    \/ PressIn(NodePickers)
    \/ PressOption
    \/ PressElsewhere
    \/ Leave
    \/ Enter
    \/ ReleaseNodePicker
    \/ ReleaseNetworkPicker
    \/ ReleaseOnOption
    \/ ReleaseElsewhere
    \/ KeyActivateIn(NodePickers)
    \/ ShowPicker
    \/ Visibility
    \/ Scale

SpecScale == Init /\ [][NextScale]_vars

\* opening and closing up to MaxPopups picker frames; the pointer is not
\* dragged off a pressed button
NextPickers ==
    \/ MoveOverIn(PickerOwners)
    \/ MoveOff
    \/ PressOwner
    \/ PressOption
    \/ PressElsewhere
    \/ ReleaseNodePicker
    \/ ReleaseNetworkPicker
    \/ ReleaseAnnotationPicker
    \/ ReleaseOnOption
    \/ ReleaseElsewhere
    \/ ShowPicker
    \/ Visibility

SpecPickers == Init /\ [][NextPickers]_vars

\* the radio tools that open no picker
PlainTools == {"select_button", "link_button", "runtime_select_button",
               "runtime_marker_button"}

\* the public methods called by the application in any state
NextDirect ==
    \/ CallClickStart
    \/ CallClickStop
    \/ CallSetRuntime
    \/ CallSetDesign
    \/ CallCreateObserve
    \/ Scale
    \/ StartDone
    \/ StopDone
    \/ MoveOverIn(PlainTools)
    \/ MoveOff
    \/ PressIn(PlainTools)
    \/ Leave
    \/ Enter
    \/ ReleaseSelect
    \/ ReleaseLink
    \/ ReleaseRuntimeSelect
    \/ ReleaseMarker

SpecDirect == Init /\ [][NextDirect]_vars

TypeOK ==
    /\ state \in [Buttons -> {NORMAL, DISABLED}]
    /\ pressed \in [Buttons -> BOOLEAN]
    /\ pointer.kind \in {"none", "over", "button", "option", "elsewhere"}
    /\ pointer.kind \in {"over", "button"} => pointer.b \in Buttons
    /\ pointer.kind = "over" => Clickable(pointer.b)
    /\ pointer.active => pointer.kind \in {"over", "button"}
    /\ Len(showq) + Len(popups) <= MaxPopups
    /\ pointer.kind = "option" => pointer.k \in 1..Len(popups)
    /\ raised \in Frames
    /\ mode \in GraphMode
    /\ menubar \in BOOLEAN
    /\ marker_tool \in BOOLEAN
    /\ grab \in 0..Len(popups)
    /\ binding \in {"none", "newest", "gone"}
    /\ binding = "newest" => popups # <<>>
    /\ \A k \in 1..Len(popups) :
          /\ popups[k].at \in {"wait_visibility", "visible", "wait_window"}
          /\ k = Len(popups) => popups[k].at # "visible"
          /\ k = grab => popups[k].at = "wait_window"
\* ------------------------------------------------------------- properties
AllState(frame, st) ==
    /\ \A b \in winfo_children(frame) : state[b] = st
    /\ frame = "runtime_frame" => \A i \in 1..Len(observe) : observe[i] = st
PressedIn(frame) == {b \in RadioSet(frame) : pressed[b]}
InFlight(title) == \E i \in 1..Len(tasks) : tasks[i] = title
CallsTo(fn) == Cardinality({i \in 1..Len(last.calls) : last.calls[i].fn = fn})

\* what the toolbar shows as Design: the design group enabled and on top
ShowsDesign == AllState("design_frame", NORMAL) /\ raised = "design_frame"

CycleEdges == {<<"Design", "Starting">>, <<"Starting", "Runtime">>,
               <<"Runtime", "Stopping">>, <<"Stopping", "Design">>}

\* C1 as stated: every change of phase is an edge of the cycle
\* Design -> Starting -> Runtime -> Stopping -> Design.
C1_StrictCycle == [][Phase' # Phase => <<Phase, Phase'>> \in CycleEdges]_vars

\* C2 as stated: click_start outside Design and click_stop outside Runtime
\* raise InvalidTransition and start no task.
C2_InvalidTransition ==
    (\/ last.op = "click_start" /\ last.phase # "Design"
     \/ last.op = "click_stop" /\ last.phase # "Runtime")
    => /\ last.raises = "InvalidTransition"
       /\ CallsTo("ProgressTask.start") = 0

\* C3: with user input delivered by the pointer, that is, only to enabled
\* controls of the raised frame, at most one start/stop task is in flight.
C3_OneTaskInFlight == Len(tasks) <= 1

C3_Witness ==
    /\ tasks = <<"Stop">>
    /\ last.op = "click_stop"
    /\ raised = "runtime_frame"
    /\ AllState("runtime_frame", DISABLED)
    /\ AllState("design_frame", DISABLED)

\* C4 as stated: right after start_callback with a successful response the
\* design group is disabled, the runtime group enabled and raised, and the
\* runtime selection tool is the one pressed runtime toggle, with mode SELECT.
C4_StartSuccess ==
    (last.op = "start_callback" /\ last.resp.result)
    => /\ AllState("design_frame", DISABLED)
       /\ AllState("runtime_frame", NORMAL)
       /\ raised = "runtime_frame"
       /\ mode = "SELECT"
       /\ PressedIn("runtime_frame") = {"runtime_select_button"}

\* the exceptions with a newline between consecutive ones, built left to right
ExpectedMessage(ex) ==
    LET F[i \in 0..Len(ex)] ==
            IF i = 0 THEN ""
            ELSE IF i = 1 THEN ex[1]
            ELSE F[i - 1] \o "\n" \o ex[i]
    IN F[Len(ex)]

\* C5 as stated: right after start_callback with a failed response the
\* toolbar shows Design, with the design group enabled and the runtime frame
\* not raised, and show_error was called once, with the exceptions joined by
\* newlines.
C5_StartFailure ==
    (last.op = "start_callback" /\ ~last.resp.result)
    => /\ ShowsDesign
       /\ CallsTo("show_error") = 1
       /\ \A i \in 1..Len(last.calls) :
            last.calls[i].fn = "show_error"
            => /\ last.calls[i].arg = ExpectedMessage(last.resp.exceptions)
               /\ last.resp.exceptions = <<"boom">> => last.calls[i].arg = "boom"

\* C6 as stated: after a failed start every runtime control is disabled.
C6_RuntimeDisabledAfterFailure ==
    (last.op = "start_callback" /\ ~last.resp.result)
    => AllState("runtime_frame", DISABLED)

\* C7: right after stop_callback, whatever the response, the toolbar shows
\* Design: the design group is enabled and raised, the design selection tool
\* is the pressed design toggle with mode SELECT, and stopped_session was
\* called once.
C7_StopCompletion ==
    last.op = "stop_callback"
    => /\ ShowsDesign
       /\ PressedIn("design_frame") = {"select_button"}
       /\ mode = "SELECT"
       /\ CallsTo("stopped_session") = 1

C7_Witness ==
    /\ last.op = "stop_callback"
    /\ ~last.resp.result
    /\ last.phase = "Stopping"
    /\ Phase = "Design"
    /\ pressed["runtime_marker_button"]

\* C8 as stated: while a start task is in flight every design control is
\* disabled, and while a stop task is in flight every runtime control is.
C8_DisabledWhileInFlight ==
    /\ InFlight("Start") => AllState("design_frame", DISABLED)
    /\ InFlight("Stop") => AllState("runtime_frame", DISABLED)

\* C9 as stated: in every reachable state at most one radio toggle of each
\* button group is in the pressed state.
C9_AtMostOnePressed == \A f \in Frames : Cardinality(PressedIn(f)) <= 1

\* C10 as stated: the design group always has exactly one pressed radio
\* toggle, and the runtime group has exactly one in Runtime.
C10_ExactlyOnePressed ==
    /\ Cardinality(PressedIn("design_frame")) = 1
    /\ Phase = "Runtime" => Cardinality(PressedIn("runtime_frame")) = 1

\* C11: from every reachable group state and for every radio control c of a
\* group, select_radio(c) leaves c the only pressed toggle of the group and
\* the other group as it was, a second select_radio(c) changes nothing, and
\* select_radio of the control that is already the selected one changes nothing.
C11_SelectRadioIdempotent ==
    \A f \in Frames :
        \A c \in RadioSet(f) :
            LET once == select_radio([pressed |-> pressed], f, c).pressed
            IN /\ select_radio([pressed |-> once], f, c).pressed = once
               /\ once = [b \in Buttons |->
                            IF b \in RadioSet(f) THEN b = c ELSE pressed[b]]
               /\ PressedIn(f) = {c} => once = pressed

C11_Witness ==
    /\ last.op = "click_link"
    /\ PressedIn("design_frame") = {"link_button"}
    /\ PressedIn("runtime_frame") = {"runtime_marker_button"}

\* C12 as stated: at most one picker popup is open at any time.
C12_OnePopupOpen == Len(popups) <= 1

\* C13 as stated: every open popup is closed by the next pointer release; a
\* release on an option closes a popup and calls the option's func once with
\* its toolbar-size icon; a release elsewhere closes a popup and leaves the
\* button images, the canvas mode and the canvas payload as they were.
C13_ReleaseCloses ==
    [][/\ popups # <<>> => (Len(popups) = 1 /\ binding = "newest")
       /\ last'.op = "option"
          => /\ Len(popups') = Len(popups) - 1
             /\ Cardinality({i \in 1..Len(last'.calls) : last'.calls[i].fn = "func"}) = 1
             /\ last'.calls[1].arg.bar_image[2] = TOOLBAR_SIZE
       /\ last'.op = "destroy"
          => /\ Len(popups') = Len(popups) - 1
             /\ image' = image
             /\ mode' = mode
             /\ node_draw' = node_draw
             /\ annotation_type' = annotation_type]_vars

\* the option whose func the last handler run called
ChosenOption == last.calls[1].arg

\* the toolbar-size icons of the options of the three pickers
OptionIcons ==
    {<<NODES[i].image_enum, TOOLBAR_SIZE>> : i \in 1..Len(NODES)}
    \cup {<<custom_nodes[i].image_file, TOOLBAR_SIZE>> : i \in 1..Len(custom_nodes)}
    \cup {<<NETWORK_NODES[i].image_enum, TOOLBAR_SIZE>> : i \in 1..Len(NETWORK_NODES)}
    \cup {<<AnnotationNodes[i][1], TOOLBAR_SIZE>> : i \in 1..Len(AnnotationNodes)}

\* C14: right after a picker option was chosen the owning button shows the
\* option's toolbar-size icon; for a node or network option canvas.mode is
\* NODE and canvas.node_draw the chosen node; for an annotation option
\* canvas.mode is ANNOTATION and canvas.annotation_type the chosen shape.
C14_OptionCommitted ==
    last.op = "option"
    => /\ image[ChosenOption.owner] = ChosenOption.bar_image
       /\ ChosenOption.bar_image \in OptionIcons
       /\ ChosenOption.kind \in {"NODE", "NETWORK"}
            => mode = "NODE" /\ node_draw = ChosenOption.node_draw
       /\ ChosenOption.kind = "ANNOTATION"
            => /\ ChosenOption.owner = "annotation_button"
               /\ mode = "ANNOTATION"
               /\ annotation_type = ChosenOption.shape_type

C14_Witness ==
    /\ last.op = "option"
    /\ ChosenOption.kind = "ANNOTATION"
    /\ annotation_type = "oval"
    /\ node_draw.label = "custom"
    /\ image["node_button"] = <<"custom.png", TOOLBAR_SIZE>>

\* C15 as stated: when start_session raises, start_callback still runs, with
\* a failed result: the toolbar shows Design again, with every design control
\* enabled.
C15_RaiseDeliveredAsFailure ==
    (last.phase = "Starting" /\ CallsTo("start_session.raise") = 1)
    => /\ last.op = "start_callback"
       /\ ~last.resp.result
       /\ ShowsDesign
       /\ CallsTo("show_error") = 1

\* C16 as stated: a step that starts in Starting (Stopping) and is not the run
\* of the completion callback leaves the phase as it is and the design
\* (runtime) group, which triggered the request, disabled; the run of
\* start_callback ends in Runtime or Design and the run of stop_callback ends
\* in Design.
C16_OnlyCompletionLeaves ==
    [][/\ Phase = "Starting"
          => IF last'.op = "start_callback"
             THEN Phase' \in {"Runtime", "Design"}
             ELSE /\ Phase' = "Starting"
                  /\ \A b \in winfo_children("design_frame") : state'[b] = DISABLED
       /\ Phase = "Stopping"
          => IF last'.op = "stop_callback"
             THEN Phase' = "Design"
             ELSE /\ Phase' = "Stopping"
                  /\ \A b \in winfo_children("runtime_frame") : state'[b] = DISABLED]_vars

\* the canvas mode a pressed design toggle stands for
ModeOfToggle(b) ==
    IF b = "select_button" THEN "SELECT"
    ELSE IF b = "link_button" THEN "EDGE"
    ELSE IF b = "annotation_button" THEN "ANNOTATION"
    ELSE "NODE"

\* C17 as stated: with the design group enabled and no picker open, the
\* pressed design toggle agrees with the canvas mode.
C17_ToggleAgreesWithMode ==
    (AllState("design_frame", NORMAL) /\ popups = <<>> /\ showq = <<>>)
    => \A b \in PressedIn("design_frame") : mode = ModeOfToggle(b)

\* C18 as stated: in Design with the design group enabled the menubar is in
\* its design state, and in Runtime it is in its runtime state.
C18_MenubarAgreesWithPhase ==
    /\ (Phase = "Design" /\ AllState("design_frame", NORMAL)) => menubar = FALSE
    /\ Phase = "Runtime" => menubar = TRUE

\* C19: exactly one of node_enum and node_file is set, scale() shows on the
\* node button the icon of that one source, and choosing a network option
\* changes neither node_enum nor node_file.
C19_OneNodeImageSource ==
    /\ [](/\ Truthy(enums.node_enum) # Truthy(enums.node_file)
          /\ last.op = "scale"
             => image["node_button"] =
                  IF Truthy(enums.node_enum)
                  THEN get_icon(enums.node_enum, TOOLBAR_SIZE)
                  ELSE get_custom_icon(enums.node_file, TOOLBAR_SIZE))
    /\ [][(last'.op = "option" /\ last'.calls[1].arg.kind = "NETWORK")
          => /\ enums'.node_enum = enums.node_enum
             /\ enums'.node_file = enums.node_file]_vars

C19_Witness ==
    /\ last.op = "scale"
    /\ node_draw.label = "both"
    /\ enums.node_enum = "HOST"
    /\ enums.node_file = None
    /\ enums.network_enum = "SWITCH"
    /\ image["node_button"] = <<"HOST", TOOLBAR_SIZE>>
====
